---- MODULE Spec2Model ----
(***************************************************************************)
(* The session / version aware request layer of the qBittorrent WebUI      *)
(* client (class QBittorrent): login, logout, request, fetch,              *)
(* checkVersion and the endpoint methods whose wire form depends on the    *)
(* cached server version.                                                  *)
(*                                                                         *)
(* Execution model.  The client runs on a single JavaScript event loop.    *)
(* An async method runs synchronously up to its first transport call; the  *)
(* promise continuations that follow a transport completion run as         *)
(* microtasks, before any other transport completion is delivered.  So     *)
(* one action of the model is either the start of a public call (run up    *)
(* to the first transport call it issues) or the delivery of one           *)
(* transport completion (run up to the next transport call of the same     *)
(* caller, or to the end of the call).  The calls in flight of one caller  *)
(* are kept as a stack of frames (request -> login -> request -> ...).     *)
(***************************************************************************)
EXTENDS Integers, Sequences, FiniteSets, TLC

VARIABLES
    auth,       \* this.state.auth: the session token and its expiry
    version,    \* this.state.version: the cached server version
    now,        \* Date.now(), in milliseconds
    ticks,      \* number of clock steps taken (bounds the clock)
    stack,      \* per caller: the frames of its call in flight
    call,       \* per caller: the public call it has in flight
    last,       \* what the last step did: a public call started or ended
    ncalls,     \* number of public calls started (bounds the run)
    timeout,    \* this.config.timeout
    timers,     \* per caller: the timer and signal of its transport call
    logs,       \* log persister, per stream: mainLogs / peerLogs
    running,    \* per stream: runningMain / runningPeer
    loops,      \* per stream: the fetch loops in flight
    remote,     \* per stream: the number of entries the server holds
    waits,      \* the persister calls in flight and the promise each awaits
    logEvent,   \* what the last step of the persister did
    nlog,       \* number of persister calls started (bounds the run)
    usage,      \* how the persister is used in this run: "plain" (calls
                \* without options, both streams), "queries" (the main
                \* stream only, getMainLogs with options) or "pages" (as
                \* "queries", one call, a server holding several pages)
    raced,      \* history, per stream: clear() has run while a sync of
                \* the stream was in flight
    util        \* the last call of a function of utils and its result

logVars == <<logs, running, loops, remote, waits, logEvent, nlog, usage, raced>>

vars == <<auth, version, now, ticks, stack, call, last, ncalls, timeout, timers,
          logVars, util>>

----------------------------------------------------------------------------
(* Bounds of the model *)

MaxDepth == 5       \* frames one caller may hold (nested request/login)
MaxTicks == 1       \* clock steps in one run
MaxCalls == 2       \* public calls started in one run

(* Program constants *)

DefaultSessionMs == 3600000   \* new Date(Date.now() + 3_600_000)
MsPerSecond == 1000           \* Number(maxAge) * 1000

Tasks == {"c1", "c2"}         \* concurrent callers of one client instance

Streams == {"main", "peer"}   \* the log streams of the persister

StartTime == MsPerSecond      \* Date.now() when the client is constructed

\* the clock advances in steps of this size: one step outlives a session
\* of the default length
TickStep == DefaultSessionMs + MsPerSecond

Last(s) == s[Len(s)]
Front(s) == SubSeq(s, 1, Len(s) - 1)

----------------------------------------------------------------------------
(* utils.ts: isGreater, a.localeCompare(b, undefined, {numeric: true}).    *)
(* Strings are sequences of one-character strings.  The collation is the   *)
(* root collation restricted to the characters used here: punctuation      *)
(* ("-" before ".") sorts before digits, digits before letters, and a run  *)
(* of digits is compared by its numeric value.                             *)

DigitChars == <<"0", "1", "2", "3", "4", "5", "6", "7", "8", "9">>
LetterChars == <<"a", "b", "e", "t", "v">>
PunctChars == <<"-", ".">>

IndexOf(seq, c) == CHOOSE i \in 1..Len(seq) : seq[i] = c
IsIn(seq, c) == \E i \in 1..Len(seq) : seq[i] = c
IsDigit(c) == IsIn(DigitChars, c)
DigitVal(c) == IndexOf(DigitChars, c) - 1

\* length of the maximal run of digits at the start of s
RECURSIVE DigitRun(_)
DigitRun(s) ==
    IF Len(s) > 0 /\ IsDigit(s[1]) THEN 1 + DigitRun(Tail(s)) ELSE 0

RECURSIVE NumVal(_, _)
NumVal(s, acc) ==
    IF Len(s) = 0 THEN acc ELSE NumVal(Tail(s), acc * 10 + DigitVal(s[1]))

\* collation elements: <<class, weight>>, class 1 punctuation, 2 number, 3 letter
RECURSIVE CollationKeys(_)
CollationKeys(s) ==
    IF Len(s) = 0 THEN <<>>
    ELSE IF IsDigit(s[1])
         THEN LET n == DigitRun(s)
              IN  <<<<2, NumVal(SubSeq(s, 1, n), 0)>>>>
                      \o CollationKeys(SubSeq(s, n + 1, Len(s)))
         ELSE IF IsIn(PunctChars, s[1])
              THEN <<<<1, IndexOf(PunctChars, s[1])>>>> \o CollationKeys(Tail(s))
              ELSE <<<<3, IndexOf(LetterChars, s[1])>>>> \o CollationKeys(Tail(s))

\* one key per character, digits by their own value: a comparison that is
\* not numeric aware ("10" before "5")
RECURSIVE CharKeys(_)
CharKeys(s) ==
    IF Len(s) = 0 THEN <<>>
    ELSE IF IsDigit(s[1])
         THEN <<<<2, DigitVal(s[1])>>>> \o CharKeys(Tail(s))
         ELSE IF IsIn(PunctChars, s[1])
              THEN <<<<1, IndexOf(PunctChars, s[1])>>>> \o CharKeys(Tail(s))
              ELSE <<<<3, IndexOf(LetterChars, s[1])>>>> \o CharKeys(Tail(s))

RECURSIVE CompareKeys(_, _)
CompareKeys(ka, kb) ==
    IF Len(ka) = 0 /\ Len(kb) = 0 THEN 0
    ELSE IF Len(ka) = 0 THEN -1
    ELSE IF Len(kb) = 0 THEN 1
    ELSE IF ka[1][1] < kb[1][1] THEN -1
    ELSE IF ka[1][1] > kb[1][1] THEN 1
    ELSE IF ka[1][2] < kb[1][2] THEN -1
    ELSE IF ka[1][2] > kb[1][2] THEN 1
    ELSE CompareKeys(Tail(ka), Tail(kb))

localeCompare(a, b) == CompareKeys(CollationKeys(a), CollationKeys(b))

isGreater_lexicographic(a, b) == CompareKeys(CharKeys(a), CharKeys(b)) = 1

isGreater(a, b) == localeCompare(a, b) = 1

----------------------------------------------------------------------------
(* checkVersion: cleaning and classification of the version string *)

Baseline == <<"5", ".", "0", ".", "0">>     \* '5.0.0'

\* newVersion.replace(/^v/, '')
StripV(s) == IF Len(s) > 0 /\ s[1] = "v" THEN Tail(s) ELSE s

\* s.split('-')[0]
RECURSIVE BeforeHyphen(_)
BeforeHyphen(s) ==
    IF Len(s) = 0 \/ s[1] = "-" THEN <<>>
    ELSE <<s[1]>> \o BeforeHyphen(Tail(s))

cleanVersion(newVersion) == BeforeHyphen(StripV(newVersion))

classify(newVersion) ==
    cleanVersion(newVersion) = Baseline
        \/ isGreater(cleanVersion(newVersion), Baseline)

\* version strings the server may answer on /app/version
VersionBodies ==
    { <<"v", "4", ".", "6", ".", "7">>,
      <<"v", "5", ".", "0", ".", "0", "-", "b", "e", "t", "a">>,
      <<"1", "0", ".", "0", ".", "0">> }

NoVersion == [has |-> FALSE, application |-> <<>>, isVersion5OrHigher |-> FALSE]

\* this.state.version?.isVersion5OrHigher
IsV5(v) == v.has /\ v.isVersion5OrHigher

\* !this.state.version?.application
VersionMissing(v) == ~v.has \/ v.application = <<>>

----------------------------------------------------------------------------
(* login(): the Set-Cookie directives of the login response.  A directive  *)
(* is the sequence of its key=value pairs; cookieParse keeps the first     *)
(* value of each key.                                                      *)

Undefined == "<undefined>"

DateEpoch == "Thu, 01 Jan 1970 00:00:00 GMT"
DateEpochPlus1s == "Thu, 01 Jan 1970 00:00:01 GMT"

ValidDate(ms) == [nan |-> FALSE, ms |-> ms]
InvalidDate == [nan |-> TRUE, ms |-> 0]

\* new Date(string)
DateParse(s) ==
    CASE s = DateEpoch -> ValidDate(0)
      [] s = DateEpochPlus1s -> ValidDate(MsPerSecond)
      [] OTHER -> InvalidDate

\* Number(string), NaN as [nan |-> TRUE]
NumberOf(s) ==
    CASE s = "0" -> [nan |-> FALSE, n |-> 0]
      [] s = "1" -> [nan |-> FALSE, n |-> 1]
      [] OTHER -> [nan |-> TRUE, n |-> 0]

Directives ==
    { <<>>,
      <<<<"SID", "s1">>, <<"Path", "/">>>>,
      <<<<"SID", "s2">>, <<"max-age", "0">>>>,
      <<<<"SID", "s1">>, <<"Expires", DateEpoch>>, <<"Max-Age", "1">>>>,
      <<<<"SID", "s2">>, <<"expires", "garbage">>>>,
      <<<<"SID", "">>, <<"Max-Age", "0">>>>,
      <<<<"XSID", "s1">>>>,
      <<<<"lang", "en">>>> }

\* the Set-Cookie headers of one login response (getSetCookie())
CookieLists ==
    {<<>>} \cup {<<d>> : d \in Directives}
           \cup {<<<<<<"lang", "en">>>>, e>> :
                     e \in {<<<<"SID", "s1">>, <<"Path", "/">>>>, <<<<"XSID", "s1">>>>}}
           \cup {<<<<<<"XSID", "s1">>>>, <<<<"SID", "s2">>, <<"max-age", "0">>>>>>}

\* value.includes('SID=')
includesSID(d) == \E i \in 1..Len(d) : d[i][1] \in {"SID", "XSID"}

\* cookieParse(setCookie)[key]
cookieGet(d, key) ==
    IF \E i \in 1..Len(d) : d[i][1] = key
    THEN d[CHOOSE i \in 1..Len(d) :
              d[i][1] = key /\ \A j \in 1..(i - 1) : d[j][1] # key][2]
    ELSE Undefined

\* a ?? b
Coalesce(a, b) == IF a # Undefined THEN a ELSE b

Truthy(s) == s # Undefined /\ s # ""

\* setCookies.find((value) => value.includes('SID=')) ?? setCookies[0]
\* (<<>> stands for undefined and for the empty string: both are falsy)
chooseCookie(cs) ==
    IF \E i \in 1..Len(cs) : includesSID(cs[i])
    THEN cs[CHOOSE i \in 1..Len(cs) :
               includesSID(cs[i]) /\ \A j \in 1..(i - 1) : ~includesSID(cs[j])]
    ELSE IF Len(cs) > 0 THEN cs[1] ELSE <<>>

NoAuth == [has |-> FALSE, sid |-> "", expires |-> ValidDate(0)]

\* the expiry login() derives from the cookie attributes
cookieExpiry(d, t) ==
    LET expires == Coalesce(cookieGet(d, "Expires"), cookieGet(d, "expires"))
        maxAge == Coalesce(cookieGet(d, "Max-Age"), cookieGet(d, "max-age"))
    IN  IF Truthy(expires) THEN DateParse(expires)
        ELSE IF Truthy(maxAge)
             THEN IF NumberOf(maxAge).nan THEN InvalidDate
                  ELSE ValidDate(t + NumberOf(maxAge).n * MsPerSecond)
             ELSE ValidDate(t + DefaultSessionMs)

loginCookie_lenient(cs, t) ==
    LET d == chooseCookie(cs)
    IN  IF d = <<>>
        THEN [ok |-> FALSE, error |-> "Cookie not found. Auth Failed.", auth |-> NoAuth]
        ELSE [ok |-> TRUE, error |-> "",
              auth |-> [has |-> TRUE, sid |-> Coalesce(cookieGet(d, "SID"), ""),
                        expires |-> cookieExpiry(d, t)]]

\* the part of login() between the login response and checkVersion()
loginCookie(cs, t) ==
    LET d == chooseCookie(cs)
    IN  IF d = <<>>
        THEN [ok |-> FALSE, error |-> "Cookie not found. Auth Failed.", auth |-> NoAuth]
        ELSE IF ~Truthy(cookieGet(d, "SID"))
        THEN [ok |-> FALSE, error |-> "Invalid cookie", auth |-> NoAuth]
        ELSE [ok |-> TRUE, error |-> "",
              auth |-> [has |-> TRUE, sid |-> cookieGet(d, "SID"),
                        expires |-> cookieExpiry(d, t)]]

----------------------------------------------------------------------------
(* request(): the session guard *)

\* this.state.auth.expires.getTime() < Date.now()
expired_atOrBefore(a, t) == ~a.expires.nan /\ a.expires.ms <= t

expired(a, t) == ~a.expires.nan /\ a.expires.ms < t

\* !this.state.auth?.sid || !this.state.auth.expires || expired
needsLogin(a, t) == ~a.has \/ a.sid = "" \/ expired(a, t)

----------------------------------------------------------------------------
(* Frames.  pc names the await a frame is suspended at:                    *)
(*   request: "login" (await this.login()), "fetch" (await this.fetch())   *)
(*   login:   "fetch" (the POST), "checkVersion" (await checkVersion())    *)
(*   logout:  "fetch" (the POST)                                           *)
(* cookie is the SID sent in the Cookie header of the frame's transport    *)
(* call.  viaLogin, nLogin and loginThrew record the history of a request  *)
(* frame: its guard called login(), the login POSTs issued while it        *)
(* waited, and whether that login threw.                                   *)

LoginPath == "/auth/login"
LogoutPath == "/auth/logout"
VersionPath == "/app/version"

\* request(): the `headers` argument, an object from header names to values
NoHeaders == <<>>

ExtraHeaders ==
    { NoHeaders,
      [k \in {"Accept"} |-> <<"text/plain">>],
      [k \in {"Cookie"} |-> <<"SID=", "other">>] }

\* { Cookie: `SID=${this.state.auth!.sid ?? ''}`, ...headers }
requestHeaders(sid, headers) ==
    [k \in {"Cookie"} \cup DOMAIN headers |->
        IF k \in DOMAIN headers THEN headers[k] ELSE <<"SID=", sid>>]

\* status, statusText and the body text read by resp.text()
Response(status, statusText, text) ==
    [status |-> status, statusText |-> statusText, text |-> text]

NoResponse == Response(0, <<>>, <<>>)

\* headers, isJson: the `headers` and `isJson` arguments of a request
\* frame (isJson = true when the caller gives none); resp: the response
\* fetch() holds while it reads the error text (pc "errorText")
Frame(fn, pc, path, cookie, viaLogin) ==
    [fn |-> fn, pc |-> pc, path |-> path, cookie |-> cookie,
     viaLogin |-> viaLogin, nLogin |-> IF viaLogin THEN 1 ELSE 0,
     loginThrew |-> FALSE, headers |-> NoHeaders, isJson |-> TRUE,
     resp |-> NoResponse]

\* a login POST is issued: every request frame waiting below counts it
CountLogin(st) ==
    [i \in 1..Len(st) |->
        IF st[i].fn = "request" /\ st[i].pc = "login"
        THEN [st[i] EXCEPT !.nLogin = @ + 1] ELSE st[i]]

\* request(path, ..., isJson): from its entry to its first await, on top
\* of the frames st
request(st, path, isJson, a, t) ==
    IF needsLogin(a, t)
    THEN CountLogin(st)
            \o <<[Frame("request", "login", path, "", TRUE) EXCEPT !.isJson = isJson],
                 Frame("login", "fetch", LoginPath, "", FALSE)>>
    ELSE Append(st, [Frame("request", "fetch", path, a.sid, FALSE)
                        EXCEPT !.isJson = isJson])

\* message: the text of the Error thrown by fetch() for a non-2xx response
Return(body) == [kind |-> "return", body |-> body, error |-> "", message |-> <<>>]
Throw(error) == [kind |-> "throw", body |-> <<>>, error |-> error, message |-> <<>>]
Pending == [kind |-> "pending", body |-> <<>>, error |-> "", message |-> <<>>]

\* the same error thrown on: `out` is a throw, or the frame throws `error`
Rethrow(out, error) ==
    [Throw(error) EXCEPT !.message = IF out.kind = "throw" THEN out.message ELSE <<>>]

\* request() after `await this.login()` gave out: what the frame f does next
requestResume_ignoreFailure(f, out, a) ==
    [throws |-> FALSE, error |-> "",
     frame |-> [f EXCEPT !.pc = "fetch", !.cookie = a.sid,
                         !.loginThrew = (out.kind = "throw")]]

requestResume(f, out, a) ==
    IF out.kind = "throw"
    THEN [throws |-> TRUE, error |-> out.error,
          frame |-> [f EXCEPT !.loginThrew = TRUE]]
    ELSE IF ~a.has      \* this.state.auth!.sid with state.auth deleted
    THEN [throws |-> TRUE, error |-> "TypeError", frame |-> f]
    ELSE [throws |-> FALSE, error |-> "",
          frame |-> [f EXCEPT !.pc = "fetch", !.cookie = a.sid]]

\* checkVersion() after the version string arrived
storeVersion(body) ==
    [has |-> TRUE, application |-> body, isVersion5OrHigher |-> classify(body)]

(* The continuations run after a frame gave `out` to the frames st below   *)
(* it, up to the next transport call or the end of the public call.        *)
(* v is the version cache and stored tells that these continuations wrote  *)
(* it; loginFailed: the login called by the guard of the public request    *)
(* threw.                                                                  *)
RECURSIVE Unwind(_, _, _, _, _)
Unwind(st, out, a, v, stored) ==
    IF st = <<>>
    THEN [stack |-> <<>>, version |-> v, stored |-> stored, out |-> out,
          loginFailed |-> FALSE]
    ELSE LET f == Last(st)
             rest == Front(st)
         IN  IF f.fn = "request"
             THEN LET r == requestResume(f, out, a)
                  IN  IF r.throws
                      THEN [Unwind(rest, Rethrow(out, r.error), a, v, stored)
                              EXCEPT !.loginFailed =
                                  @ \/ (rest = <<>> /\ r.frame.loginThrew)]
                      ELSE [stack |-> Append(rest, r.frame), version |-> v,
                            stored |-> stored, out |-> Pending,
                            loginFailed |-> FALSE]
             ELSE \* login() at `await this.checkVersion()`
                  IF out.kind = "throw"
                  THEN Unwind(rest, out, a, v, stored)
                  ELSE Unwind(rest, Return(<<>>), a, storeVersion(out.body), TRUE)

----------------------------------------------------------------------------
(* fetch(): the responses of the transport.  A text is a sequence of       *)
(* tokens; " " and "\n" are its white space.                               *)

WhiteSpace == {" ", "\n"}

RECURSIVE TrimStart(_)
TrimStart(s) ==
    IF Len(s) > 0 /\ s[1] \in WhiteSpace THEN TrimStart(Tail(s)) ELSE s

RECURSIVE TrimEnd(_)
TrimEnd(s) ==
    IF Len(s) > 0 /\ s[Len(s)] \in WhiteSpace
    THEN TrimEnd(SubSeq(s, 1, Len(s) - 1)) ELSE s

\* String.prototype.trim()
Trim(s) == TrimEnd(TrimStart(s))

Responses ==
    { Response(200, <<"OK">>, <<>>),
      Response(300, <<"Multiple", " ", "Choices">>, <<>>),
      Response(404, <<>>, <<"missing", "\n">>) }

fetchOk_below400(resp) == resp.status >= 200 /\ resp.status <= 399

\* resp.ok
fetchOk(resp) == resp.status >= 200 /\ resp.status <= 299

\* `Request failed: ${resp.status} ${resp.statusText} ${errorText}`.trim()
fetchMessage(resp) ==
    Trim(<<"Request failed:", " ", ToString(resp.status), " ">>
            \o resp.statusText \o <<" ">> \o resp.text)

----------------------------------------------------------------------------
(* fetch(): the timeout.  The transport is taken to honour the signal it   *)
(* is given: when the timer fires, controller.abort() makes the transport  *)
(* call in flight reject.                                                  *)

DefaultTimeout == 5000        \* defaults.timeout

\* config.timeout: undefined or a number of milliseconds
NoTimeout == [def |-> FALSE, ms |-> 0]
Timeout(ms) == [def |-> TRUE, ms |-> ms]
Timeouts == {NoTimeout, Timeout(0), Timeout(-1), Timeout(DefaultTimeout)}

NoTimer == [timer |-> FALSE, signal |-> FALSE]

fetchStart_always(cfg) == [timer |-> TRUE, signal |-> TRUE]

\* if (this.config.timeout && this.config.timeout > 0) { ... setTimeout(...) }
fetchStart(cfg) ==
    IF cfg.def /\ cfg.ms # 0 /\ cfg.ms > 0
    THEN [timer |-> TRUE, signal |-> TRUE]
    ELSE NoTimer

fetchFinally_successOnly(tm, o) == IF o = "ok" THEN NoTimer ELSE tm

\* finally { if (timeoutId) clearTimeout(timeoutId) }, the transport call
\* having ended as o
fetchFinally(tm, o) == NoTimer

\* a fetch() is in flight on top of the frames st: it awaits the response
\* of the transport, or the error text of a response that is not ok
InFlight(st) == st # <<>> /\ st[Len(st)].pc \in {"fetch", "errorText"}

\* caller t starts a call that leaves the frames st
StartTimers(t, st) ==
    [timers EXCEPT ![t] = IF InFlight(st) THEN fetchStart(timeout) ELSE @]

\* the transport call of caller t ended as o and left the frames st
EndTimers(t, st, o) ==
    [timers EXCEPT ![t] = IF InFlight(st) THEN fetchStart(timeout)
                          ELSE fetchFinally(@, o)]

----------------------------------------------------------------------------
(* The public calls.  call[t] is the call caller t has in flight.  last    *)
(* describes the step just taken: the public call it started (kind         *)
(* "call", with the wire form the method chose), the public call it ended  *)
(* (kind "end", with the outcome), or neither (kind "none"); stored tells  *)
(* that the step wrote the version cache.                                  *)

NoValue == "<none>"

\* an optional boolean option of a call: undefined, true or false
NoOpt == [def |-> FALSE, val |-> FALSE]
Opt(b) == [def |-> TRUE, val |-> b]
BoolOptions == {NoOpt, Opt(TRUE), Opt(FALSE)}

\* sent: the target transport call of the public request was issued
\* auth: (history) this.state.auth when login() was called
IdleCall == [op |-> "idle", sent |-> FALSE, auth |-> NoAuth]

\* path: the endpoint chosen; arg / filter: the filter given to
\* getTorrentList and the one it sends; paused / stopped: the options given
\* to addNewTorrent or addNewMagnet; formPaused / formStopped: the form
\* fields sent; status: "returned" or "threw"; remote: how the
\* transport call of the step ended; loginFailed: the login called by the guard threw;
\* gotResponse / response: the step delivered this response of the
\* transport; message: the text of the error the call threw;
\* gotCookies / cookies: the step delivered a login response with these
\* Set-Cookie headers; gotBody / body: the step ended a read of the body
\* (res.json(), res.text(), or the error text in fetch()), with this body
\* text when remote is "ok"
NoEvent ==
    [kind |-> "none", op |-> "idle", path |-> "", stored |-> FALSE,
     arg |-> NoValue, filter |-> NoValue,
     paused |-> NoOpt, stopped |-> NoOpt,
     formPaused |-> NoValue, formStopped |-> NoValue,
     status |-> "", error |-> "", sent |-> FALSE,
     loginFailed |-> FALSE, remote |-> NoValue,
     gotCookies |-> FALSE, cookies |-> <<>>,
     gotResponse |-> FALSE, response |-> NoResponse, message |-> <<>>,
     gotBody |-> FALSE, body |-> <<>>]

CallEvent(op, path) == [NoEvent EXCEPT !.kind = "call", !.op = op, !.path = path]

\* the step that delivered the login response cs
CookieEvent(cs) ==
    [NoEvent EXCEPT !.gotCookies = TRUE, !.cookies = cs, !.remote = "ok"]

\* e: what the step delivered
EndEventOn(e, op, out) ==
    [e EXCEPT !.kind = "end", !.op = op,
              !.status = IF out.kind = "throw" THEN "threw" ELSE "returned",
              !.error = out.error, !.message = out.message]

\* the target transport call of the public request is in flight
TargetSent(st) == st # <<>> /\ st[1].fn = "request" /\ st[1].pc = "fetch"

AddOps == {"addNewTorrent", "addNewMagnet"}

\* JSON.parse of res.json(), on the texts of the model: a text is JSON
\* when, white space around it skipped, it is a literal, [] or {}
jsonParse(text) ==
    LET s == Trim(text)
    IN  \/ Len(s) = 1 /\ s[1] \in {"true", "false", "null"}
        \/ s \in {<<"[", "]">>, <<"{", "}">>}

\* request() after fetch() returned: `isJson ? await res.json() : await
\* res.text()`, the body read being text
readBody(isJson, text) ==
    IF isJson /\ ~jsonParse(text) THEN Throw("SyntaxError") ELSE Return(text)

\* the public method op after its request() gave out: addNewTorrent and
\* addNewMagnet throw when the answer is 'Fails.'
addResult(op, out) ==
    IF op \in AddOps /\ out.kind = "return" /\ out.body = <<"Fails.">>
    THEN Throw("Failed to add torrent")
    ELSE out

\* utils: a string is a sequence of characters; a value of type
\* string | string[] is a string or an array of strings
MaxStrLen == 2                \* characters of a string
MaxItems == 2                 \* strings of an array

Chars == {"a", "|"}

RECURSIVE SeqsUpTo(_, _)
SeqsUpTo(S, n) ==
    IF n = 0 THEN {<<>>}
    ELSE LET shorter == SeqsUpTo(S, n - 1)
         IN  shorter \cup {Append(q, x) : q \in shorter, x \in S}

Strings == SeqsUpTo(Chars, MaxStrLen)

Str(s) == [array |-> FALSE, str |-> s, items |-> <<>>]
Arr(xs) == [array |-> TRUE, str |-> <<>>, items |-> xs]

Values == {Str(s) : s \in Strings} \cup {Arr(xs) : xs \in SeqsUpTo(Strings, MaxItems)}

\* the delimiters the client passes: '|', ',' and '\n'
Delimiters == {<<"|">>, <<",">>, <<"\n">>}

\* Array.prototype.join(separator): the elements from left to right, the
\* separator before every element but the first
RECURSIVE join(_, _)
join(xs, separator) ==
    IF Len(xs) = 0 THEN <<>>
    ELSE IF Len(xs) = 1 THEN xs[1]
    ELSE join(Front(xs), separator) \o separator \o xs[Len(xs)]

normalizeHashes_comma(hashes) ==
    IF hashes.array THEN join(hashes.items, <<",">>) ELSE hashes.str

normalizeHashes(hashes) ==
    IF hashes.array THEN join(hashes.items, <<"|">>) ELSE hashes.str

\* normalizeList(value, delimiter) of utils: an array is joined with the
\* delimiter, a string is passed through
normalizeList(value, delimiter) ==
    IF value.array THEN join(value.items, delimiter) ELSE value.str

NoUtil == [fn |-> "", value |-> Str(<<>>), delimiter |-> <<>>, out |-> <<>>]

\* runningMain / runningPeer: undefined, or the promise of sync number op,
\* which is "pending", "fulfilled" or "rejected"
NoPromise == [op |-> 0, state |-> "none"]
Promise(op, state) == [op |-> op, state |-> state]

\* what a step of the persister did.  kind "call": a call of fn started
\* and awaits the promise op (started: it started a fetch loop); kind
\* "end": the sync op of the stream settled; kind "return": a call of fn
\* continued after its await and ended; kind "page": a page was merged
\* and the loop goes on; kind "clear".  status, error: how the call or
\* sync ended; pages: the page requests the sync made; resumed: the calls
\* that await the promise the sync settled; results: what the call that
\* ended in this step gave its caller
NoLogEvent ==
    [kind |-> "none", stream |-> "", fn |-> "", op |-> 0, started |-> FALSE,
     status |-> "", error |-> "", pages |-> 0, resumed |-> 0, results |-> {}]

\* the persister after construction, with a server that holds no entry
InitLogsAs(u) ==
    /\ logs = [s \in Streams |-> <<>>]
    /\ running = [s \in Streams |-> NoPromise]
    /\ loops = [s \in Streams |-> {}]
    /\ remote = [s \in Streams |-> 0]
    /\ waits = {}
    /\ logEvent = NoLogEvent
    /\ nlog = 0
    /\ usage = u
    /\ raced = [s \in Streams |-> FALSE]

InitLogs == InitLogsAs("plain")

Init ==
    /\ auth = NoAuth
    /\ version = NoVersion
    /\ now = StartTime
    /\ ticks = 0
    /\ stack = [t \in Tasks |-> <<>>]
    /\ call = [t \in Tasks |-> IdleCall]
    /\ last = NoEvent
    /\ ncalls = 0
    /\ timeout = Timeout(DefaultTimeout)
    /\ timers = [t \in Tasks |-> NoTimer]
    /\ InitLogs
    /\ util = NoUtil

\* the second caller starts after the first has made its first call
CanCall(t) ==
    /\ stack[t] = <<>>
    /\ ncalls < MaxCalls
    /\ t = "c1" \/ ncalls > 0

\* start a public call that is one request() to e.path
StartRequest(t, e, isJson) ==
    LET st == request(<<>>, e.path, isJson, auth, now)
    IN  /\ stack' = [stack EXCEPT ![t] = st]
        /\ call' = [call EXCEPT ![t] = [op |-> e.op, sent |-> TargetSent(st),
                                          auth |-> NoAuth]]
        /\ last' = e
        /\ ncalls' = ncalls + 1
        /\ timers' = StartTimers(t, st)
        /\ UNCHANGED <<auth, version, now, ticks, timeout, logVars, util>>

\* a public method that is one request(): getApiVersion(), which reads
\* the answer as text
CallRequest(t) ==
    /\ CanCall(t)
    /\ StartRequest(t, CallEvent("request", "/app/webapiVersion"), FALSE)

\* request(path, method, params, body, headers) with headers given and
\* isJson left to its default
CallRequestWith(t) ==
    /\ CanCall(t)
    /\ \E headers \in ExtraHeaders \ {NoHeaders} :
          LET st == request(<<>>, "/app/buildInfo", TRUE, auth, now)
          IN  /\ stack' = [stack EXCEPT ![t] = [st EXCEPT ![1].headers = headers]]
              /\ call' = [call EXCEPT ![t] = [op |-> "request", auth |-> NoAuth,
                                                sent |-> TargetSent(st)]]
              /\ timers' = StartTimers(t, st)
    /\ last' = CallEvent("request", "/app/buildInfo")
    /\ ncalls' = ncalls + 1
    /\ UNCHANGED <<auth, version, now, ticks, timeout, logVars, util>>

CallLogin(t) ==
    /\ CanCall(t)
    /\ stack' = [stack EXCEPT ![t] = <<Frame("login", "fetch", LoginPath, "", FALSE)>>]
    /\ call' = [call EXCEPT ![t] = [op |-> "login", sent |-> FALSE, auth |-> auth]]
    /\ last' = CallEvent("login", LoginPath)
    /\ ncalls' = ncalls + 1
    /\ timers' = StartTimers(t, stack'[t])
    /\ UNCHANGED <<auth, version, now, ticks, timeout, logVars, util>>

----------------------------------------------------------------------------
(* logout() *)

\* a non-2xx response, a rejected transport call, a call aborted by the
\* signal of its timeout
FetchFailures == {"http", "network", "abort"}

\* fetch(): the error it throws
fetchError(o) ==
    CASE o = "http" -> "Request failed"
      [] o = "abort" -> "AbortError"
      [] OTHER -> "network error"

\* the ways a transport call ends, <<o, resp>>: with a response that is
\* resp.ok ("ok") or is not ("http"), or with no response ("network")
FetchEnds ==
    {<<IF fetchOk(resp) THEN "ok" ELSE "http", resp>> : resp \in Responses}
        \cup {<<"network", NoResponse>>}

\* the error fetch() throws when the transport call ends as e
fetchThrow(e) ==
    [Throw(fetchError(e[1])) EXCEPT
        !.message = IF e[1] = "http" THEN fetchMessage(e[2]) ELSE <<>>]

\* the step that delivered the end e of a transport call
ResponseEvent(e) ==
    [NoEvent EXCEPT !.gotResponse = (e[1] \in {"ok", "http"}), !.response = e[2],
                    !.remote = e[1]]

\* the ways the fetch() of the frame f may end now: while it awaits the
\* response, with a response that is ok or with a transport error; while
\* it reads the error text of the response f.resp, with that text (it
\* throws "Request failed") or with a failure of the read
FetchOutcomes(f) ==
    IF f.pc = "errorText"
    THEN {<<"http", f.resp>>, <<"network", NoResponse>>}
    ELSE {e \in FetchEnds : e[1] # "http"}

\* the step that ended the fetch() of the frame f as e
FetchEvent(f, e) == [ResponseEvent(e) EXCEPT !.gotBody = (f.pc = "errorText")]

\* fetch(): `const resp = await fetchImpl(...)` gives a response that is
\* not ok, and fetch() awaits resp.text(); the timer stays armed
ErrorResponse(t) ==
    /\ InFlight(stack[t])
    /\ Last(stack[t]).pc = "fetch"
    /\ \E e \in FetchEnds :
          /\ e[1] = "http"
          /\ stack' = [stack EXCEPT ![t][Len(stack[t])].pc = "errorText",
                                    ![t][Len(stack[t])].resp = e[2]]
          /\ last' = ResponseEvent(e)
    /\ UNCHANGED <<auth, version, call, timers, now, ticks, ncalls, timeout,
                   logVars, util>>

\* logout() from the end of its transport call (o = "ok" or a failure;
\* NoValue when no call was made): the finally block, then the result
logout_keepVersion(o, a, v) ==
    [auth |-> NoAuth, version |-> v,
     out |-> IF o \in FetchFailures THEN Throw(fetchError(o)) ELSE Return(<<>>)]

logout(o, a, v) ==
    [auth |-> NoAuth, version |-> NoVersion,
     out |-> IF o \in FetchFailures THEN Throw(fetchError(o)) ELSE Return(<<>>)]

\* e: how the transport call of logout() ended
FinishLogout(t, e) ==
    LET o == e[1]
        r == logout(o, auth, version)
        out == IF r.out.kind = "throw" THEN Rethrow(fetchThrow(e), r.out.error)
               ELSE r.out
    IN  /\ auth' = r.auth
        /\ version' = r.version
        /\ stack' = [stack EXCEPT ![t] = <<>>]
        /\ call' = [call EXCEPT ![t] = IdleCall]
        /\ last' = [EndEventOn(IF o = NoValue THEN NoEvent
                               ELSE FetchEvent(Last(stack[t]), e),
                               "logout", out) EXCEPT !.remote = o]
        /\ timers' = EndTimers(t, <<>>, o)

CallLogout(t) ==
    /\ CanCall(t)
    /\ ncalls' = ncalls + 1
    /\ IF auth.has /\ auth.sid # ""
       THEN /\ stack' = [stack EXCEPT ![t] =
                           <<Frame("logout", "fetch", LogoutPath, auth.sid, FALSE)>>]
            /\ call' = [call EXCEPT ![t] = [op |-> "logout", sent |-> FALSE,
                                                auth |-> NoAuth]]
            /\ last' = CallEvent("logout", LogoutPath)
            /\ timers' = StartTimers(t, stack'[t])
            /\ UNCHANGED <<auth, version>>
       ELSE FinishLogout(t, <<NoValue, NoResponse>>)
    /\ UNCHANGED <<now, ticks, timeout, logVars, util>>

\* the fetch() of logout() ends
LogoutResponse(t) ==
    /\ stack[t] # <<>>
    /\ Last(stack[t]).fn = "logout"
    /\ \E e \in FetchOutcomes(Last(stack[t])) : FinishLogout(t, e)
    /\ UNCHANGED <<now, ticks, ncalls, timeout, logVars, util>>

----------------------------------------------------------------------------
(* Transport completions of login() and request() *)

\* apply the continuations r of caller t, run after the step delivered e
ApplyOn(e, t, r) ==
    /\ stack' = [stack EXCEPT ![t] = r.stack]
    /\ version' = r.version
    /\ IF r.stack = <<>>
       THEN /\ call' = [call EXCEPT ![t] = IdleCall]
            /\ last' = [EndEventOn(e, call[t].op, addResult(call[t].op, r.out)) EXCEPT
                          !.sent = call[t].sent,
                          !.loginFailed = r.loginFailed,
                          !.stored = r.stored]
       ELSE /\ call' = [call EXCEPT ![t].sent = @ \/ TargetSent(r.stack)]
            /\ last' = [e EXCEPT !.stored = r.stored]
    /\ timers' = EndTimers(t, r.stack, e.remote)

AtLoginFetch(t) ==
    /\ stack[t] # <<>>
    /\ Last(stack[t]).fn = "login"
    /\ Last(stack[t]).pc = "fetch"

\* the fetch() of the login POST throws: login() throws
LoginFetchFails(t) ==
    /\ InFlight(stack[t])
    /\ Last(stack[t]).fn = "login"
    /\ \E e \in FetchOutcomes(Last(stack[t])) :
          /\ e[1] \in FetchFailures
          /\ ApplyOn(FetchEvent(Last(stack[t]), e), t,
                     Unwind(Front(stack[t]), fetchThrow(e), auth, version, FALSE))
    /\ UNCHANGED <<auth, now, ticks, ncalls, timeout, logVars, util>>

\* the login POST is answered with the Set-Cookie headers cs
LoginResponse(t) ==
    /\ AtLoginFetch(t)
    /\ \E e \in FetchEnds : e[1] = "ok"
    /\ \E cs \in CookieLists :
          LET c == loginCookie(cs, now)
              below == Front(stack[t])
              self == [Last(stack[t]) EXCEPT !.pc = "checkVersion"]
          IN  IF ~c.ok
              THEN /\ ApplyOn(CookieEvent(cs), t,
                                   Unwind(below, Throw(c.error), auth, version, FALSE))
                   /\ UNCHANGED auth
              ELSE /\ auth' = c.auth
                   /\ IF ~VersionMissing(version)
                      THEN ApplyOn(CookieEvent(cs), t,
                                   Unwind(below, Return(<<>>), c.auth, version, FALSE))
                      ELSE \* checkVersion() -> getApplicationVersion() -> request()
                           LET st == request(Append(below, self), VersionPath, FALSE,
                                             c.auth, now)
                           IN  /\ Len(st) <= MaxDepth
                               /\ stack' = [stack EXCEPT ![t] = st]
                               /\ last' = CookieEvent(cs)
                               /\ timers' = EndTimers(t, st, "ok")
                               /\ UNCHANGED <<version, call>>
    /\ UNCHANGED <<now, ticks, ncalls, timeout, logVars, util>>

AtRequestFetch(t) ==
    /\ stack[t] # <<>>
    /\ Last(stack[t]).fn = "request"
    /\ Last(stack[t]).pc = "fetch"

\* the bodies the server may answer on a path: a version string, the
\* answer to an added torrent, a text that is returned as it is, or a
\* text read as JSON
Bodies(path) ==
    IF path = VersionPath THEN VersionBodies
    ELSE IF path = "/torrents/add" THEN {<<>>, <<"Ok.">>, <<"Fails.">>}
    ELSE {<<>>, <<"[", "]">>}

\* the fetch() of request() throws
RequestFetchFails(t) ==
    /\ InFlight(stack[t])
    /\ Last(stack[t]).fn = "request"
    /\ \E e \in FetchOutcomes(Last(stack[t])) :
          /\ e[1] \in FetchFailures
          /\ ApplyOn(FetchEvent(Last(stack[t]), e), t,
                     Unwind(Front(stack[t]), fetchThrow(e), auth, version, FALSE))
    /\ UNCHANGED <<auth, now, ticks, ncalls, timeout, logVars, util>>

\* the transport call of request() is answered with a response that is
\* ok: fetch() returns it, its finally clears the timer, and request()
\* awaits the body
RequestResponse(t) ==
    /\ AtRequestFetch(t)
    /\ \E e \in FetchEnds :
          /\ e[1] = "ok"
          /\ stack' = [stack EXCEPT ![t][Len(stack[t])].pc = "body"]
          /\ last' = ResponseEvent(e)
          /\ timers' = EndTimers(t, stack'[t], e[1])
    /\ UNCHANGED <<auth, version, call, now, ticks, ncalls, timeout, logVars, util>>

\* the body of the response arrives, or reading it fails: res.json() or
\* res.text() settles and request() ends
RequestBody(t) ==
    /\ stack[t] # <<>>
    /\ Last(stack[t]).fn = "request"
    /\ Last(stack[t]).pc = "body"
    /\ \/ \E body \in Bodies(Last(stack[t]).path) :
             ApplyOn([NoEvent EXCEPT !.remote = "ok", !.gotBody = TRUE, !.body = body],
                     t, Unwind(Front(stack[t]),
                               readBody(Last(stack[t]).isJson, body),
                               auth, version, FALSE))
       \/ ApplyOn([NoEvent EXCEPT !.remote = "network", !.gotBody = TRUE], t,
                  Unwind(Front(stack[t]), Throw(fetchError("network")),
                         auth, version, FALSE))
    /\ UNCHANGED <<auth, now, ticks, ncalls, timeout, logVars, util>>

\* the timer of the transport call of caller t fires: controller.abort()
TimeoutFires(t) ==
    /\ InFlight(stack[t])
    /\ timers[t].timer /\ timers[t].signal
    /\ LET e == <<"abort", NoResponse>>
       IN  IF Last(stack[t]).fn = "logout"
           THEN FinishLogout(t, e)
           ELSE /\ ApplyOn(FetchEvent(Last(stack[t]), e), t,
                           Unwind(Front(stack[t]), fetchThrow(e), auth, version, FALSE))
                /\ UNCHANGED auth
    /\ UNCHANGED <<now, ticks, ncalls, timeout, logVars, util>>

Tick ==
    /\ ticks < MaxTicks
    /\ now' = now + TickStep
    /\ ticks' = ticks + 1
    /\ last' = NoEvent
    /\ UNCHANGED <<auth, version, stack, call, ncalls, timeout, timers, logVars, util>>

----------------------------------------------------------------------------
(* Endpoint methods whose wire form depends on the cached version *)

stopTorrents(v) == IF IsV5(v) THEN "/torrents/stop" ELSE "/torrents/pause"

pauseTorrents_legacyOnly(v) == "/torrents/pause"

pauseTorrents(v) == stopTorrents(v)

startTorrents(v) == IF IsV5(v) THEN "/torrents/start" ELSE "/torrents/resume"

resumeTorrents(v) == startTorrents(v)

endpointOf(op, v) ==
    CASE op = "stopTorrents" -> stopTorrents(v)
      [] op = "pauseTorrents" -> pauseTorrents(v)
      [] op = "startTorrents" -> startTorrents(v)
      [] op = "resumeTorrents" -> resumeTorrents(v)

StartStopOps == {"stopTorrents", "pauseTorrents", "startTorrents", "resumeTorrents"}

\* getTorrentList({filter}): params.filter (NoValue: no filter parameter)
Filters == {NoValue, "", "all", "active", "paused", "stopped", "resumed", "running"}

listFilter_oneWay(filter, v) ==
    IF filter = NoValue \/ filter = "" THEN NoValue
    ELSE IF IsV5(v)
         THEN IF filter = "paused" THEN "stopped"
              ELSE IF filter = "resumed" THEN "running" ELSE filter
         ELSE filter

listFilter(filter, v) ==
    IF filter = NoValue \/ filter = "" THEN NoValue
    ELSE IF IsV5(v)
         THEN IF filter = "paused" THEN "stopped"
              ELSE IF filter = "resumed" THEN "running" ELSE filter
         ELSE IF filter = "stopped" THEN "paused"
              ELSE IF filter = "running" THEN "resumed" ELSE filter

\* `${value}` of a boolean option; NoValue when the entry is skipped
formValue(o) == IF ~o.def THEN NoValue ELSE IF o.val THEN "true" ELSE "false"

\* addNewTorrent: the paused and stopped fields of the form it sends
addNewTorrentForm_pausedWins(paused, stopped, v) ==
    IF IsV5(v) /\ paused.def
    THEN [paused |-> NoValue, stopped |-> formValue(paused)]
    ELSE [paused |-> formValue(paused), stopped |-> formValue(stopped)]

addNewTorrentForm(paused, stopped, v) ==
    IF IsV5(v) /\ paused.def
    THEN [paused |-> NoValue,
          stopped |-> formValue(IF ~stopped.def THEN paused ELSE stopped)]
    ELSE [paused |-> formValue(paused), stopped |-> formValue(stopped)]

\* addNewMagnet: the same fields
addNewMagnetForm(paused, stopped, v) ==
    IF IsV5(v) /\ paused.def
    THEN [paused |-> NoValue,
          stopped |-> formValue(IF ~stopped.def THEN paused ELSE stopped)]
    ELSE [paused |-> formValue(paused), stopped |-> formValue(stopped)]

addForm(op, paused, stopped, v) ==
    IF op = "addNewTorrent" THEN addNewTorrentForm(paused, stopped, v)
    ELSE addNewMagnetForm(paused, stopped, v)

CallStartStop(t) ==
    /\ CanCall(t)
    /\ \E op \in StartStopOps :
          StartRequest(t, CallEvent(op, endpointOf(op, version)), TRUE)

CallGetTorrentList(t) ==
    /\ CanCall(t)
    /\ \E filter \in Filters :
          StartRequest(t, [CallEvent("getTorrentList", "/torrents/info")
                             EXCEPT !.arg = filter,
                                    !.filter = listFilter(filter, version)],
                       TRUE)

CallAdd(t) ==
    /\ CanCall(t)
    /\ \E op \in AddOps, paused \in BoolOptions, stopped \in BoolOptions :
          LET form == addForm(op, paused, stopped, version)
          IN  StartRequest(t, [CallEvent(op, "/torrents/add")
                                 EXCEPT !.paused = paused, !.stopped = stopped,
                                        !.formPaused = form.paused,
                                        !.formStopped = form.stopped],
                           FALSE)

----------------------------------------------------------------------------
(* QBittorrentLogPersister.  An entry is its id; the server holds the      *)
(* entries 1..remote[s] of stream s and answers a page request with the    *)
(* entries newer than the requested lastKnownId, in ascending or in        *)
(* descending order.  The log client (client.getLog, client.getPeerLog)    *)
(* is the environment: a call of it returns a promise that is fulfilled    *)
(* with a page or rejected, or it throws before returning a promise.       *)

MaxPages == 10                \* while (page < 10)

MaxLogCalls == 2              \* persister calls (clear() included) in one run
MaxMainRemote == 3            \* entries the server may hold, main stream
MaxPeerRemote == 1            \* entries the server may hold, peer stream
MaxQueryRemote == 4           \* the same for the main stream, in a run with queries
MaxQueryCalls == 3            \* persister calls in a run with queries
MaxPagesRemote == 10          \* the same for the main stream, in a run with a long stream
MaxPagesCalls == 1            \* persister calls in a run with a long stream

MaxCallsOf(u) ==
    IF u = "queries" THEN MaxQueryCalls
    ELSE IF u = "pages" THEN MaxPagesCalls
    ELSE MaxLogCalls

MaxRemote(s) ==
    IF s = "peer" THEN MaxPeerRemote
    ELSE IF usage = "queries" THEN MaxQueryRemote
    ELSE IF usage = "pages" THEN MaxPagesRemote
    ELSE MaxMainRemote

mainLogs == logs["main"]

clientVars == <<auth, version, now, ticks, stack, call, last, ncalls, timeout, timers>>

NoId == 0                     \* lastKnownId undefined

lastKnownId_next(l) == IF Len(l) = 0 THEN NoId ELSE l[Len(l)] + 1

\* this.mainLogs.at(-1)?.id
lastKnownId(l) == IF Len(l) = 0 THEN NoId ELSE l[Len(l)]

\* the entries a..b in ascending order
RECURSIVE Ascending(_, _)
Ascending(a, b) == IF a > b THEN <<>> ELSE <<a>> \o Ascending(a + 1, b)

RECURSIVE Reverse(_)
Reverse(l) == IF Len(l) = 0 THEN <<>> ELSE Append(Reverse(Tail(l)), l[1])

\* the pages the server may answer: the entries newer than the cursor
Pages(s, cursor) ==
    LET new == Ascending(IF cursor = NoId THEN 1 ELSE cursor + 1, remote[s])
    IN  {new, Reverse(new)}

\* insert x into the sorted sequence l, after the entries that are not greater
RECURSIVE Insert(_, _)
Insert(l, x) ==
    IF Len(l) = 0 THEN <<x>>
    ELSE IF x < l[1] THEN <<x>> \o l
    ELSE <<l[1]>> \o Insert(Tail(l), x)

\* Array.prototype.sort((a, b) => a.id - b.id)
RECURSIVE Sort(_)
Sort(l) == IF Len(l) = 0 THEN <<>> ELSE Insert(Sort(Front(l)), l[Len(l)])

mergeLogs_append(old, page) == old \o page

mergeLogs_replace(old, page) == Sort(page)

\* [...this.mainLogs, ...mainLogs].sort((a, b) => a.id - b.id)
mergeLogs(old, page) == Sort(old \o page)

loopContinues_unbounded(page, entries) == Len(entries) > 0

\* the loop makes another page request: the page it got was not empty and
\* fewer than 10 pages were merged (page: the pages merged before this one)
loopContinues(page, entries) == Len(entries) > 0 /\ page + 1 < MaxPages

\* how a call of the log client starts: it returns a promise, or it throws
ClientModes == {"pending", "throws"}

syncStart_noGuard(marker, op, mode, cursor) ==
    IF mode = "throws"
    THEN [promise |-> Promise(op, "rejected"), loop |-> {},
          running |-> Promise(op, "rejected"), started |-> TRUE]
    ELSE [promise |-> Promise(op, "pending"),
          loop |-> {[op |-> op, page |-> 0, cursor |-> cursor]},
          running |-> Promise(op, "pending"), started |-> TRUE]

(* syncMainLogs / syncPeerLogs up to the first await of the loop.  The     *)
(* async function runs at once: a log client that throws makes its finally *)
(* block run (the marker is set to undefined) before the promise the       *)
(* function returns, already rejected, is assigned to the marker.          *)
syncStart(marker, op, mode, cursor) ==
    IF marker # NoPromise
    THEN [promise |-> marker, loop |-> {}, running |-> marker, started |-> FALSE]
    ELSE IF mode = "throws"
    THEN [promise |-> Promise(op, "rejected"), loop |-> {},
          running |-> Promise(op, "rejected"), started |-> TRUE]
    ELSE [promise |-> Promise(op, "pending"),
          loop |-> {[op |-> op, page |-> 0, cursor |-> cursor]},
          running |-> Promise(op, "pending"), started |-> TRUE]

\* finally { this.runningMain = undefined } of a loop that ends after an await
syncFinally(marker) == NoPromise

StreamOf(fn) == IF fn = "getMainLogs" THEN "main" ELSE "peer"
LogCalls == {"getMainLogs", "getPeerLogs"}

\* LogEntry.type: 1 normal, 2 info, 4 warning, 8 critical; the server gives
\* the entries the four types in turn
LogTypes == <<1, 2, 4, 8>>
TypeOf(id) == LogTypes[((id - 1) % Len(LogTypes)) + 1]

\* an option of GetLogOptions: not given, or given as true or false
Unset == [def |-> FALSE, on |-> FALSE]
Flag(b) == [def |-> TRUE, on |-> b]

\* query.normal ?? true
allow(flag) == IF flag.def THEN flag.on ELSE TRUE

\* getMainLogs(): no option given
NoQuery ==
    [lastKnownId |-> NoId, normal |-> Unset, info |-> Unset,
     warning |-> Unset, critical |-> Unset]

\* the options the callers pass: none; a cursor with some of the flags; the
\* warning and critical entries only
Queries ==
    {NoQuery,
     [NoQuery EXCEPT !.lastKnownId = 1, !.info = Flag(TRUE), !.warning = Flag(FALSE)],
     [NoQuery EXCEPT !.normal = Flag(FALSE), !.info = Flag(FALSE),
                     !.warning = Flag(TRUE), !.critical = Flag(TRUE)]}

\* the calls made in a run
CallsOf(u) == IF u \in {"queries", "pages"} THEN {"getMainLogs"} ELSE LogCalls

QueriesOf(fn) ==
    IF fn = "getMainLogs" /\ usage \in {"queries", "pages"} THEN Queries
    ELSE {NoQuery}

logFilter_inclusive(id, query) ==
    /\ ~(query.lastKnownId # NoId /\ id < query.lastKnownId)
    /\ ~(TypeOf(id) = 1 /\ ~allow(query.normal))
    /\ ~(TypeOf(id) = 2 /\ ~allow(query.info))
    /\ ~(TypeOf(id) = 4 /\ ~allow(query.warning))
    /\ ~(TypeOf(id) = 8 /\ ~allow(query.critical))

\* the callback of this.mainLogs.filter(...): the entry is kept
logFilter(id, query) ==
    /\ ~(query.lastKnownId # NoId /\ id <= query.lastKnownId)
    /\ ~(TypeOf(id) = 1 /\ ~allow(query.normal))
    /\ ~(TypeOf(id) = 2 /\ ~allow(query.info))
    /\ ~(TypeOf(id) = 4 /\ ~allow(query.warning))
    /\ ~(TypeOf(id) = 8 /\ ~allow(query.critical))

\* const rows = this.mainLogs.filter(...)
RECURSIVE filterLogs(_, _)
filterLogs(cache, query) ==
    IF Len(cache) = 0 THEN <<>>
    ELSE (IF logFilter(cache[1], query) THEN <<cache[1]>> ELSE <<>>)
         \o filterLogs(Tail(cache), query)

logResult_stale(w, status, error, cache) ==
    [id |-> w.id, fn |-> w.fn, query |-> w.query, status |-> "returned",
     error |-> "",
     rows |-> IF w.fn = "getMainLogs" THEN filterLogs(cache, w.query) ELSE cache]

\* what the call w gives its caller when it continues after its await:
\* the error of the sync, or the rows (getMainLogs: cache is this.mainLogs,
\* which it filters; getPeerLogs: cache is the value of the sync)
logResult(w, status, error, cache) ==
    IF status = "threw"
    THEN [id |-> w.id, fn |-> w.fn, query |-> w.query, status |-> "threw",
          error |-> error, rows |-> <<>>]
    ELSE [id |-> w.id, fn |-> w.fn, query |-> w.query, status |-> "returned",
          error |-> "",
          rows |-> IF w.fn = "getMainLogs" THEN filterLogs(cache, w.query) ELSE cache]

\* getMainLogs() / getPeerLogs() up to `await this.syncMainLogs()`: the
\* call awaits the promise of the sync (settled "pending"), or a promise
\* that is rejected already
LogCall(fn) ==
    /\ nlog < MaxCallsOf(usage)
    /\ nlog' = nlog + 1
    /\ \E mode \in ClientModes, query \in QueriesOf(fn) :
          LET s == StreamOf(fn)
              r == syncStart(running[s], nlog + 1, mode, lastKnownId(logs[s]))
              rejected == r.promise.state = "rejected"
              w == [id |-> nlog + 1, fn |-> fn, stream |-> s,
                    op |-> r.promise.op, query |-> query,
                    settled |-> IF rejected THEN "threw" ELSE "pending",
                    error |-> IF rejected THEN "thrown" ELSE "",
                    value |-> <<>>]
          IN  /\ running' = [running EXCEPT ![s] = r.running]
              /\ loops' = [loops EXCEPT ![s] = @ \cup r.loop]
              /\ waits' = waits \cup {w}
              /\ logEvent' = [NoLogEvent EXCEPT
                                !.kind = "call", !.stream = s, !.fn = fn,
                                !.op = r.promise.op, !.started = r.started]
    /\ UNCHANGED <<logs, remote, usage, raced, clientVars, util>>

\* the loop l of stream s ends: its finally block runs and its promise
\* settles, with the cache of the stream as its value; the calls that
\* await it continue later
\* (cache: the cache of the stream when the loop ends)
LoopEnds(s, l, status, error, pages, cache) ==
    /\ loops' = [loops EXCEPT ![s] = @ \ {l}]
    /\ running' = [running EXCEPT ![s] = syncFinally(@)]
    /\ waits' = {IF w.op = l.op
                 THEN [w EXCEPT !.settled = status, !.error = error,
                                !.value = IF status = "returned" /\ w.fn # "getMainLogs"
                                          THEN cache ELSE <<>>]
                 ELSE w : w \in waits}
    /\ logEvent' = [NoLogEvent EXCEPT
                      !.kind = "end", !.stream = s, !.op = l.op,
                      !.status = status, !.error = error, !.pages = pages,
                      !.resumed = Cardinality({w \in waits : w.op = l.op})]

\* a call continues after its await, the promise it awaits being settled:
\* getMainLogs() filters this.mainLogs as it is now, getPeerLogs() gives
\* the value of the sync; both throw the error of a failed sync
LogReturn ==
    /\ \E w \in waits :
          /\ w.settled # "pending"
          /\ waits' = waits \ {w}
          /\ logEvent' = [NoLogEvent EXCEPT
                            !.kind = "return", !.stream = w.stream, !.fn = w.fn,
                            !.op = w.op, !.status = w.settled, !.error = w.error,
                            !.results =
                                {logResult(w, w.settled, w.error,
                                           IF w.fn = "getMainLogs" THEN logs[w.stream]
                                           ELSE w.value)}]
    /\ UNCHANGED <<logs, running, loops, remote, nlog, usage, raced, clientVars, util>>

\* a page request of stream s is answered
PageArrives(s) ==
    /\ \E l \in loops[s], mode \in ClientModes : \E page \in Pages(s, l.cursor) :
          IF Len(page) = 0
          THEN /\ mode = "pending"
               /\ LoopEnds(s, l, "returned", "", l.page + 1, logs[s])
               /\ UNCHANGED logs
          ELSE /\ logs' = [logs EXCEPT ![s] = mergeLogs(@, page)]
               /\ IF ~loopContinues(l.page, page)
                  THEN /\ mode = "pending"
                       /\ LoopEnds(s, l, "returned", "", l.page + 1,
                                   mergeLogs(logs[s], page))
                  ELSE IF mode = "throws"
                  THEN LoopEnds(s, l, "threw", "thrown", l.page + 2,
                                mergeLogs(logs[s], page))
                  ELSE /\ loops' = [loops EXCEPT ![s] =
                                      (@ \ {l}) \cup
                                      {[l EXCEPT !.page = @ + 1,
                                                 !.cursor = lastKnownId(logs'[s])]}]
                       /\ logEvent' = [NoLogEvent EXCEPT
                                         !.kind = "page", !.stream = s, !.op = l.op,
                                         !.pages = l.page + 2]
                       /\ UNCHANGED <<running, waits>>
    /\ UNCHANGED <<remote, nlog, usage, raced, clientVars, util>>

\* a page request of stream s is rejected
PageFails(s) ==
    /\ \E l \in loops[s] : LoopEnds(s, l, "threw", "rejected", l.page + 1, logs[s])
    /\ UNCHANGED <<logs, remote, nlog, usage, raced, clientVars, util>>

\* clear()
Clear ==
    /\ nlog < MaxCallsOf(usage)
    /\ nlog' = nlog + 1
    /\ logs' = [s \in Streams |-> <<>>]
    /\ logEvent' = [NoLogEvent EXCEPT !.kind = "clear"]
    /\ raced' = [s \in Streams |-> raced[s] \/ loops[s] # {}]
    /\ UNCHANGED <<running, loops, remote, waits, usage, clientVars, util>>

\* the server appends an entry to stream s
RemoteAppend(s) ==
    /\ remote[s] < MaxRemote(s)
    /\ remote' = [remote EXCEPT ![s] = @ + 1]
    /\ logEvent' = NoLogEvent
    /\ UNCHANGED <<logs, running, loops, waits, nlog, usage, raced, clientVars, util>>

----------------------------------------------------------------------------
(* Spec: two callers use the session methods of one client concurrently.   *)
(* SpecSeq: one caller makes one public call after the other, the          *)
(* version dependent endpoint methods included.                            *)

Completions(t) ==
    \/ ErrorResponse(t)
    \/ LoginFetchFails(t)
    \/ LoginResponse(t)
    \/ RequestFetchFails(t)
    \/ RequestResponse(t)
    \/ RequestBody(t)
    \/ LogoutResponse(t)
    \/ TimeoutFires(t)

Next ==
    \/ \E t \in Tasks : CallRequest(t)
    \/ \E t \in Tasks : CallLogin(t)
    \/ \E t \in Tasks : CallLogout(t)
    \/ \E t \in Tasks : Completions(t)
    \/ Tick

Spec == Init /\ [][Next]_vars

Caller == "c1"

NextSeq ==
    \/ CallRequest(Caller)
    \/ CallLogin(Caller)
    \/ CallLogout(Caller)
    \/ CallStartStop(Caller)
    \/ CallGetTorrentList(Caller)
    \/ CallAdd(Caller)
    \/ CallRequestWith(Caller)
    \/ Completions(Caller)
    \/ Tick

\* the client constructed with config.timeout given
InitSeq ==
    /\ auth = NoAuth
    /\ version = NoVersion
    /\ now = StartTime
    /\ ticks = 0
    /\ stack = [t \in Tasks |-> <<>>]
    /\ call = [t \in Tasks |-> IdleCall]
    /\ last = NoEvent
    /\ ncalls = 0
    /\ timeout \in Timeouts
    /\ timers = [t \in Tasks |-> NoTimer]
    /\ InitLogs
    /\ util = NoUtil

SpecSeq == InitSeq /\ [][NextSeq]_vars

\* the log persister, used by concurrent callers
NextLogs ==
    \/ \E fn \in CallsOf(usage) : LogCall(fn)
    \/ \E s \in Streams : PageArrives(s)
    \/ \E s \in Streams : PageFails(s)
    \/ LogReturn
    \/ Clear
    \/ \E s \in Streams : RemoteAppend(s)

SpecLogs == Init /\ [][NextLogs]_vars

\* the log persister, used by callers that pass options to getMainLogs
InitQueries ==
    /\ auth = NoAuth
    /\ version = NoVersion
    /\ now = StartTime
    /\ ticks = 0
    /\ stack = [t \in Tasks |-> <<>>]
    /\ call = [t \in Tasks |-> IdleCall]
    /\ last = NoEvent
    /\ ncalls = 0
    /\ timeout = Timeout(DefaultTimeout)
    /\ timers = [t \in Tasks |-> NoTimer]
    /\ InitLogsAs("queries")
    /\ util = NoUtil

SpecQueries == InitQueries /\ [][NextLogs]_vars

\* the log persister, used on a server with a long main stream
InitPages ==
    /\ auth = NoAuth
    /\ version = NoVersion
    /\ now = StartTime
    /\ ticks = 0
    /\ stack = [t \in Tasks |-> <<>>]
    /\ call = [t \in Tasks |-> IdleCall]
    /\ last = NoEvent
    /\ ncalls = 0
    /\ timeout = Timeout(DefaultTimeout)
    /\ timers = [t \in Tasks |-> NoTimer]
    /\ InitLogsAs("pages")
    /\ util = NoUtil

SpecPages == InitPages /\ [][NextLogs]_vars

\* normalizeHashes(hashes) is called
CallNormalizeHashes ==
    /\ \E hashes \in Values :
          util' = [fn |-> "normalizeHashes", value |-> hashes,
                   delimiter |-> <<>>, out |-> normalizeHashes(hashes)]
    /\ UNCHANGED <<clientVars, logVars>>

\* normalizeList(value, delimiter) is called
CallNormalizeList ==
    /\ \E value \in Values, delimiter \in Delimiters :
          util' = [fn |-> "normalizeList", value |-> value,
                   delimiter |-> delimiter, out |-> normalizeList(value, delimiter)]
    /\ UNCHANGED <<clientVars, logVars>>

\* the functions of utils, called with strings and arrays of strings
NextUtils == CallNormalizeHashes \/ CallNormalizeList

SpecUtils == Init /\ [][NextUtils]_vars

----------------------------------------------------------------------------
(* Properties *)

Frames == {<<t, i>> : t \in Tasks, i \in 1..MaxDepth}
HasFrame(p) == p[2] <= Len(stack[p[1]])
FrameAt(p) == stack[p[1]][p[2]]

\* a request frame whose target transport call has been issued
TargetIssued(f) == f.fn = "request" /\ f.pc \in {"fetch", "errorText", "body"}

(* C1: every request() whose guard found the token absent or expired      *)
(* performs exactly one login POST before its target transport call is    *)
(* issued.                                                                 *)
C1_ExactlyOneLogin ==
    \A p \in Frames :
        HasFrame(p) /\ TargetIssued(FrameAt(p)) /\ FrameAt(p).viaLogin
            => FrameAt(p).nLogin = 1

(* C2: when the login called by request()'s guard throws, request()       *)
(* throws and its target transport call is never issued.                  *)
C2_LoginFailureAborts ==
    /\ \A p \in Frames :
          HasFrame(p) /\ FrameAt(p).fn = "request" /\ FrameAt(p).loginThrew
              => ~TargetIssued(FrameAt(p))
    /\ last.kind = "end" /\ last.loginFailed
          => last.status = "threw" /\ ~last.sent

C2_Witness ==
    last.kind = "end" /\ last.op = "request" /\ last.loginFailed
        /\ last.status = "threw"

\* the step starts a request() of caller t whose guard passed: the target
\* transport call was issued without a login
SendsDirectly(t) ==
    /\ Len(stack'[t]) = Len(stack[t]) + 1
    /\ Last(stack'[t]).fn = "request"
    /\ Last(stack'[t]).pc = "fetch"
    /\ ~Last(stack'[t]).viaLogin

\* the step starts a request() of caller t whose guard called login()
LogsInFirst(t) ==
    /\ Len(stack'[t]) = Len(stack[t]) + 2
    /\ Last(stack'[t]).fn = "login"
    /\ stack'[t][Len(stack'[t]) - 1].fn = "request"
    /\ stack'[t][Len(stack'[t]) - 1].viaLogin

(* C3, as stated: request() sends without re-authenticating only when a   *)
(* token is set and its expiry is strictly later than now; an expiry      *)
(* equal to the current time is treated as expired.                       *)
C3_StrictlyLaterThanNow ==
    [][\A t \in Tasks :
          SendsDirectly(t) =>
              auth'.has /\ ~auth'.expires.nan /\ auth'.expires.ms > now']_vars

(* C3, amended: request() sends without re-authenticating exactly when a  *)
(* token is set and its expiry is not earlier than now (an expiry that is *)
(* no valid date is never earlier); login() runs first exactly when no    *)
(* token is set or the expiry is earlier than now.  An expiry equal to    *)
(* the current time is still valid.                                       *)
C3_NotEarlierThanNow ==
    [][\A t \in Tasks :
          /\ SendsDirectly(t) =>
                auth'.has /\ (auth'.expires.nan \/ auth'.expires.ms >= now')
          /\ LogsInFirst(t) =>
                ~auth'.has \/ (~auth'.expires.nan /\ auth'.expires.ms < now')]_vars

C3_Witness ==
    \E p \in Frames :
        /\ HasFrame(p) /\ TargetIssued(FrameAt(p)) /\ ~FrameAt(p).viaLogin
        /\ FrameAt(p).path = "/app/webapiVersion"
        /\ auth.has /\ ~auth.expires.nan /\ auth.expires.ms = now
        /\ last.kind = "call"

(* C4: when logout() has finished, whether its remote call succeeded or   *)
(* failed, the client holds neither a session token nor version info.     *)
C4_LogoutClearsState ==
    last.kind = "end" /\ last.op = "logout" => ~auth.has /\ ~version.has

C4_Witness ==
    last.kind = "end" /\ last.op = "logout" /\ last.remote = "http"
        /\ ~auth.has /\ ~version.has

(* C5: a failure of the remote call of logout() is not surfaced to the    *)
(* caller: logout() returns true, after it cleared the local state, also  *)
(* when its transport call failed.                                        *)
C5_LogoutNeverThrows ==
    last.kind = "end" /\ last.op = "logout" => last.status = "returned"

(* C6: the version is fetched and classified only when no version info is *)
(* cached: without a logout, a cached version is never stored again.      *)
C6_VersionFetchedOnce ==
    [][last'.stored => ~version.has]_vars

(* C7: stopTorrents and pauseTorrents choose the same endpoint, and so do *)
(* startTorrents and resumeTorrents: /torrents/stop and /torrents/start   *)
(* exactly when the cached version says v5 or higher, /torrents/pause and *)
(* /torrents/resume otherwise, also when no version is cached.            *)
C7_StartStopEndpoint ==
    last.kind = "call" /\ last.op \in StartStopOps =>
        LET v5 == version.has /\ version.isVersion5OrHigher
        IN  /\ last.op \in {"stopTorrents", "pauseTorrents"} =>
                  last.path = IF v5 THEN "/torrents/stop" ELSE "/torrents/pause"
            /\ last.op \in {"startTorrents", "resumeTorrents"} =>
                  last.path = IF v5 THEN "/torrents/start" ELSE "/torrents/resume"

C7_Witness ==
    /\ last.kind = "call" /\ last.op = "pauseTorrents"
    /\ last.path = "/torrents/stop"
    /\ version.has /\ version.isVersion5OrHigher

V5Version == storeVersion(Baseline)
LegacyVersion == storeVersion(<<"4", ".", "6", ".", "7">>)

(* C8: getTorrentList sends "paused" as "stopped" and "resumed" as        *)
(* "running" on v5+, "stopped" as "paused" and "running" as "resumed"     *)
(* before v5 or with no version cached, and any other filter unchanged;   *)
(* each mapping undoes the other on the tokens it produces, and the token *)
(* sent belongs to the vocabulary of the cached version.                  *)
C8_FilterRemap ==
    /\ last.kind = "call" /\ last.op = "getTorrentList"
         /\ last.arg \notin {NoValue, ""} =>
        LET v5 == version.has /\ version.isVersion5OrHigher
        IN  /\ last.filter =
                 IF v5 /\ last.arg = "paused" THEN "stopped"
                 ELSE IF v5 /\ last.arg = "resumed" THEN "running"
                 ELSE IF ~v5 /\ last.arg = "stopped" THEN "paused"
                 ELSE IF ~v5 /\ last.arg = "running" THEN "resumed"
                 ELSE last.arg
            /\ v5 => last.filter \notin {"paused", "resumed"}
            /\ ~v5 => last.filter \notin {"stopped", "running"}
    /\ \A x \in {"paused", "resumed"} :
          listFilter(listFilter(x, V5Version), LegacyVersion) = x
    /\ \A y \in {"stopped", "running"} :
          listFilter(listFilter(y, LegacyVersion), V5Version) = y

C8_Witness ==
    /\ last.kind = "call" /\ last.op = "getTorrentList"
    /\ last.arg = "running" /\ last.filter = "resumed"
    /\ version.has /\ ~version.isVersion5OrHigher

(* C9: addNewTorrent and addNewMagnet called with a paused option send,   *)
(* on v5+, no paused field and stopped equal to the explicit stopped      *)
(* option when given, else to paused; before v5 or with no version cached *)
(* they send paused unchanged and derive no stopped field from it.        *)
C9_PausedToStopped ==
    last.kind = "call" /\ last.op \in AddOps /\ last.paused.def =>
        LET v5 == version.has /\ version.isVersion5OrHigher
            text(b) == IF b THEN "true" ELSE "false"
        IN  IF v5
            THEN /\ last.formPaused = NoValue
                 /\ last.formStopped =
                      IF last.stopped.def THEN text(last.stopped.val)
                      ELSE text(last.paused.val)
            ELSE /\ last.formPaused = text(last.paused.val)
                 /\ last.formStopped =
                      IF last.stopped.def THEN text(last.stopped.val) ELSE NoValue

C9_Witness ==
    /\ last.kind = "call" /\ last.op = "addNewMagnet"
    /\ version.has /\ version.isVersion5OrHigher
    /\ last.paused = Opt(TRUE) /\ last.stopped = Opt(FALSE)
    /\ last.formPaused = NoValue /\ last.formStopped = "false"

\* the dot separated components of a version string, as numbers
RECURSIVE C10_Components(_, _)
C10_Components(s, cur) ==
    IF Len(s) = 0 THEN <<NumVal(cur, 0)>>
    ELSE IF s[1] = "." THEN <<NumVal(cur, 0)>> \o C10_Components(Tail(s), <<>>)
    ELSE C10_Components(Tail(s), Append(cur, s[1]))

\* a follows b, component by component; a proper prefix comes first
RECURSIVE C10_Follows(_, _)
C10_Follows(a, b) ==
    IF Len(a) = 0 THEN FALSE
    ELSE IF Len(b) = 0 THEN TRUE
    ELSE IF a[1] # b[1] THEN a[1] > b[1]
    ELSE C10_Follows(Tail(a), Tail(b))

C10_Cleaned(s) ==
    LET noV == IF Len(s) > 0 /\ s[1] = "v" THEN SubSeq(s, 2, Len(s)) ELSE s
        cut == IF \E i \in 1..Len(noV) : noV[i] = "-"
               THEN (CHOOSE i \in 1..Len(noV) :
                        noV[i] = "-" /\ \A j \in 1..(i - 1) : noV[j] # "-") - 1
               ELSE Len(noV)
    IN  SubSeq(noV, 1, cut)

(* C10: isVersion5OrHigher is true exactly when the version string,       *)
(* without one leading "v" and without everything from the first hyphen   *)
(* on, is "5.0.0" or follows it in numeric aware order (10.0.0 follows    *)
(* 5.0.0), and false otherwise.                                           *)
C10_AtLeastV5 ==
    version.has =>
        (version.isVersion5OrHigher <=>
            \/ C10_Cleaned(version.application) = <<"5", ".", "0", ".", "0">>
            \/ C10_Follows(C10_Components(C10_Cleaned(version.application), <<>>),
                           <<5, 0, 0>>))

C10_Witness ==
    /\ version.has
    /\ version.application = <<"1", "0", ".", "0", ".", "0">>
    /\ version.isVersion5OrHigher

\* the directive login() reads: the first one whose text contains "SID=",
\* else the first one; <<>> when there is none
C11_Chosen(cs) ==
    IF \E i \in 1..Len(cs) : \E k \in 1..Len(cs[i]) : cs[i][k][1] \in {"SID", "XSID"}
    THEN cs[CHOOSE i \in 1..Len(cs) :
               /\ \E k \in 1..Len(cs[i]) : cs[i][k][1] \in {"SID", "XSID"}
               /\ \A j \in 1..(i - 1) :
                     \A k \in 1..Len(cs[j]) : cs[j][k][1] \notin {"SID", "XSID"}]
    ELSE IF Len(cs) > 0 THEN cs[1] ELSE <<>>

C11_NoTokenKey(cs) ==
    \A k \in 1..Len(C11_Chosen(cs)) : C11_Chosen(cs)[k][1] # "SID"

(* C11: when the login response carries no cookie directive, or the       *)
(* directive login() reads has no token key, login() throws its           *)
(* authentication error (so does the call that ran it) and the session    *)
(* state is left as it was: no token is stored.                           *)
C11_NoCookieNoSession ==
    [][last'.gotCookies /\ C11_NoTokenKey(last'.cookies) =>
          /\ last'.kind = "end" /\ last'.status = "threw"
          /\ last'.error \in {"Cookie not found. Auth Failed.", "Invalid cookie"}
          /\ auth' = auth]_vars

C11_Witness ==
    /\ last.gotCookies /\ last.cookies = <<<<<<"lang", "en">>>>, <<<<"XSID", "s1">>>>>>
    /\ last.kind = "end" /\ last.op = "login" /\ last.error = "Invalid cookie"
    /\ ~auth.has

\* the tokens of a text that are not white space
C12_Words(s) == SelectSeq(s, LAMBDA x : x \notin {" ", "\n"})

\* the text of the error made from the response resp
C12_Carries(message, resp) ==
    C12_Words(message) =
        <<"Request failed:", ToString(resp.status)>>
            \o C12_Words(resp.statusText) \o C12_Words(resp.text)

\* the step ends the fetch() of caller t that holds a response that is
\* not ok
C12_EndsErrorFetch(t) ==
    /\ stack[t] # <<>>
    /\ Last(stack[t]).pc = "errorText"
    /\ stack'[t] # stack[t]

(* C12 as stated: a response whose status is not in 200..299 makes the    *)
(* call fail: it throws an error whose text holds, in this order, the     *)
(* status code, the status text and the body text, and it returns no      *)
(* result.                                                                *)
C12_NonSuccessFails ==
    [][\A t \in Tasks :
          C12_EndsErrorFetch(t)
              => /\ last'.kind = "end" /\ last'.status = "threw"
                 /\ C12_Carries(last'.message, Last(stack[t]).resp)]_vars

(* C12, amended: a response whose status is not in 200..299 is never      *)
(* taken for a success and makes the call fail without a result; the      *)
(* error holds the status code, the status text and the body text when    *)
(* the body text was read, and it is the abort or the transport error     *)
(* when the timeout fired or the read failed before that.                 *)
C12_NonSuccessFailsOnceRead ==
    [][/\ (last'.gotResponse /\ last'.response.status \notin 200..299)
            => last'.remote = "http" /\ last'.status # "returned"
       /\ \A t \in Tasks :
            C12_EndsErrorFetch(t)
                => /\ last'.kind = "end" /\ last'.status = "threw"
                   /\ last'.remote \in {"http", "network", "abort"}
                   /\ last'.remote = "http"
                        => C12_Carries(last'.message, Last(stack[t]).resp)
                   /\ last'.remote = "network" => last'.error = "network error"
                   /\ last'.remote = "abort" => last'.error = "AbortError"]_vars

C12_Witness ==
    /\ last.gotResponse /\ last.response.status = 404 /\ last.gotBody
    /\ last.kind = "end" /\ last.op = "getTorrentList" /\ last.sent
    /\ last.status = "threw"
    /\ last.message = <<"Request failed:", " ", "404", " ", " ", "missing">>

(* C13: every transport call issued by request() carries the credential   *)
(* header with the session token read when the call was sent, whatever     *)
(* headers the caller of request() supplied.                               *)
C13_CredentialAlwaysSent ==
    \A p \in Frames :
        HasFrame(p) /\ TargetIssued(FrameAt(p)) =>
            LET f == FrameAt(p)
            IN  /\ "Cookie" \in DOMAIN requestHeaders(f.cookie, f.headers)
                /\ requestHeaders(f.cookie, f.headers)["Cookie"] = <<"SID=", f.cookie>>

\* config.timeout is a positive number
C14_Positive == timeout.def /\ timeout.ms > 0

(* C14: with a positive timeout configured every transport call in flight *)
(* has a timer and a signal, and a call in flight when its timer fires is *)
(* aborted: the public call throws and returns no result.  With no        *)
(* timeout or a timeout that is not positive, no signal is attached and   *)
(* no timer is scheduled.                                                 *)
C14_TimeoutAborts ==
    /\ \A t \in Tasks :
          /\ InFlight(stack[t]) /\ C14_Positive =>
                timers[t].timer /\ timers[t].signal
          /\ ~C14_Positive => ~timers[t].timer /\ ~timers[t].signal
    /\ last.remote = "abort" =>
          /\ C14_Positive
          /\ last.kind = "end" /\ last.status = "threw"
          /\ last.error = "AbortError"

C14_Witness ==
    /\ last.remote = "abort" /\ last.kind = "end"
    /\ last.op = "getTorrentList" /\ last.sent /\ last.status = "threw"

(* C15: a timer is scheduled only while the transport call it was created *)
(* for is in flight: after the call ended, with a response that is ok,    *)
(* with one that is not, or with a transport error, no timer is left.     *)
C15_NoTimerOutlivesCall ==
    \A t \in Tasks : timers[t].timer => InFlight(stack[t])

C15_Witness ==
    /\ C14_Positive
    /\ last.kind = "end" /\ last.remote = "network" /\ last.sent
    /\ ~last.gotBody
    /\ \A t \in Tasks : ~timers[t].timer


----------------------------------------------------------------------------
(* The log persister                                                       *)

\* a step is a call of getMainLogs / getPeerLogs
C16_IsCall(e) == e.kind = "call" /\ e.fn \in LogCalls

(* C16: each log stream has at most one fetch loop in flight; a call of    *)
(* getMainLogs / getPeerLogs made while the loop of its stream is in       *)
(* flight starts no new loop and awaits the operation in flight; and a     *)
(* call on one stream leaves the loop and the marker of the other alone.   *)
C16_OneLoopPerStream ==
    [][\A s \in Streams :
          /\ Cardinality(loops'[s]) <= 1
          /\ (C16_IsCall(logEvent') /\ logEvent'.stream = s /\ loops[s] # {})
                => /\ loops'[s] = loops[s]
                   /\ ~logEvent'.started
                   /\ logEvent'.kind = "call"
                   /\ \E l \in loops[s] : logEvent'.op = l.op
                   /\ \E w \in waits' \ waits : w.stream = s /\ w.op = logEvent'.op
          /\ (C16_IsCall(logEvent') /\ logEvent'.stream # s)
                => loops'[s] = loops[s] /\ running'[s] = running[s]]_vars

\* a second call joined the loop in flight: two calls await one operation
C16_Witness ==
    /\ logEvent.kind = "call"
    /\ ~logEvent.started
    /\ Cardinality(loops[logEvent.stream]) = 1
    /\ Cardinality({w \in waits : w.op = logEvent.op}) = 2

(* C17: when the fetch of a sync has raised an error, the marker of the    *)
(* stream is cleared (so that the next sync starts a new loop): the        *)
(* marker is set only while the fetch loop of its sync is in flight, and   *)
(* it never holds a sync that has failed.                                  *)
C17_FailedSyncClearsMarker ==
    \A s \in Streams :
        running[s] # NoPromise
            => /\ running[s].state # "rejected"
               /\ \E l \in loops[s] : l.op = running[s].op

(* C18: a sync makes at most 10 page requests, also when every page brings *)
(* new entries, and it ends at the first page that brings no entry.        *)
C18_SyncStopsWithinTenPages ==
    [][\A s \in Streams :
          /\ \A l \in loops'[s] : l.page < MaxPages
          /\ (~C16_IsCall(logEvent') /\ logEvent'.stream = s /\ logEvent'.kind = "end")
                => logEvent'.pages <= MaxPages
          /\ (~C16_IsCall(logEvent') /\ logEvent'.stream = s
                /\ logEvent'.kind \in {"page", "end"} /\ logs'[s] = logs[s])
                => loops'[s] = {} /\ logEvent'.kind = "end"]_vars

\* a sync ended after ten pages that all brought entries
C18_Witness ==
    /\ logEvent.kind = "end"
    /\ logEvent.status = "returned"
    /\ logEvent.pages = MaxPages
    /\ Len(logs[logEvent.stream]) >= MaxPages

(* C19: each cache is strictly ascending by id, in every reachable state,  *)
(* also when clear() ran while a sync was in flight.                       *)
C19_CachesAscending ==
    \A s \in Streams : \A i \in 1..(Len(logs[s]) - 1) : logs[s][i] < logs[s][i + 1]

\* a page arrived after a clear() that ran while its sync was in flight:
\* the cache holds several entries and no longer the first one
C19_Witness ==
    /\ logEvent.kind \in {"page", "end"}
    /\ Len(mainLogs) >= 2
    /\ mainLogs[1] > 1

(* C20: each cache is empty at construction, and no step but clear()       *)
(* takes an entry out of a cache.                                          *)
C20_CacheOnlyGrows ==
    /\ \A s \in Streams : logs[s] = <<>>
    /\ [][logEvent'.kind # "clear"
            => \A s \in Streams : \A i \in 1..Len(logs[s]) :
                  \E j \in 1..Len(logs'[s]) : logs'[s][j] = logs[s][i]]_vars

\* a sync failed after it merged a page: the cache keeps the entries
C20_Witness ==
    /\ logEvent.kind = "end"
    /\ logEvent.status = "threw"
    /\ logEvent.pages >= 2
    /\ logs[logEvent.stream] # <<>>


\* the severity flag of the query that governs an entry of the given type
C21_FlagOf(query, type) ==
    CASE type = 1 -> query.normal
      [] type = 2 -> query.info
      [] type = 4 -> query.warning
      [] type = 8 -> query.critical

\* the ids a query asks for, among the ids of a cache
C21_Wanted(cache, query) ==
    {cache[i] : i \in {j \in 1..Len(cache) :
        /\ (query.lastKnownId # NoId => cache[j] > query.lastKnownId)
        /\ C21_FlagOf(query, TypeOf(cache[j])) \in {Unset, Flag(TRUE)}}}

(* C21: a getMainLogs(options) call that returns gives exactly the cached  *)
(* main entries whose id is greater than lastKnownId (when given) and      *)
(* whose severity flag is true or not given, in ascending order of id.     *)
C21_FilteredRows ==
    \A r \in logEvent.results :
        (r.fn = "getMainLogs" /\ r.status = "returned")
            => /\ {r.rows[i] : i \in 1..Len(r.rows)} = C21_Wanted(mainLogs, r.query)
               /\ \A i \in 1..(Len(r.rows) - 1) : r.rows[i] < r.rows[i + 1]

\* a call with a cursor and flags returned some of the cached entries, and
\* left out an entry behind the cursor and an entry of a type switched off
C21_Witness ==
    \E r \in logEvent.results :
        /\ r.fn = "getMainLogs" /\ r.status = "returned"
        /\ r.query.lastKnownId = 1
        /\ mainLogs = <<1, 2, 3, 4>>
        /\ r.rows = <<2, 4>>


(* C22: a getMainLogs() / getPeerLogs() call made while no sync of its     *)
(* stream is in flight fetches from the server again, and the result of a  *)
(* call without options holds the stream from its first entry on, without  *)
(* a gap: the entries returned earlier and the ones appended since.        *)
C22_CallFetchesAgain ==
    [][/\ (C16_IsCall(logEvent') /\ loops[logEvent'.stream] = {})
            => logEvent'.started
       /\ \A r \in logEvent'.results :
            (r.status = "returned" /\ r.query = NoQuery)
                => r.rows = Ascending(1, Len(r.rows))]_vars


(* C23: a getMainLogs() call made right after clear() gets its result     *)
(* from a sync that requests the stream from its start (no lastKnownId),   *)
(* so that the result is the stream as the server holds it and not what    *)
(* was left to fetch before clear().                                       *)
C23_FreshSyncAfterClear ==
    [][(logEvent.kind = "clear" /\ logEvent'.kind = "call"
            /\ logEvent'.fn = "getMainLogs")
          => /\ logEvent'.started
             /\ \E l \in loops'["main"] : l.op = logEvent'.op /\ l.cursor = NoId]_vars


(* C24: when a fetch fails during a sync, every getMainLogs() /            *)
(* getPeerLogs() call that awaits that sync fails with the error of the    *)
(* fetch; none of them returns the entries cached before.                  *)
C24_FailurePropagates ==
    [][/\ (logEvent'.kind = "end" /\ logEvent'.status = "threw")
            => \A w \in waits :
                  w.op = logEvent'.op
                      => \E v \in waits' :
                            /\ v.id = w.id
                            /\ v.settled = "threw" /\ v.error = logEvent'.error
       /\ \A w \in waits :
            (w.settled = "threw" /\ \A v \in waits' : v.id # w.id)
                => \E r \in logEvent'.results :
                      /\ r.id = w.id /\ r.fn = w.fn
                      /\ r.status = "threw"
                      /\ r.error = w.error
                      /\ r.rows = <<>>]_vars

\* a sync that had merged a page failed while two calls awaited it: one
\* of them has thrown the error, the other is about to
C24_Witness ==
    /\ logEvent.kind = "return"
    /\ logEvent.status = "threw"
    /\ logs[logEvent.stream] # <<>>
    /\ \E r \in logEvent.results : r.status = "threw" /\ r.error = "rejected"
    /\ \E w \in waits : w.op = logEvent.op /\ w.settled = "threw"


\* the cache holds every entry of the server up to its largest cached id
C30_Gapless(cache, held) ==
    \A id \in 1..lastKnownId(cache) :
        id <= held => \E i \in 1..Len(cache) : cache[i] = id

(* C30 as stated: whenever no sync of the main stream is in flight, the    *)
(* main cache has no gap, also when clear() ran while a sync was in flight *)
C30_NoGaps ==
    loops["main"] = {} => C30_Gapless(mainLogs, remote["main"])

(* C30, amended: whenever no sync of the main stream is in flight, the     *)
(* main cache has no gap, provided clear() never ran while a sync of the   *)
(* main stream was in flight.                                              *)
C30_NoGapsWithoutRace ==
    (loops["main"] = {} /\ ~raced["main"]) => C30_Gapless(mainLogs, remote["main"])

\* a sync has ended with several entries cached, after a run without a
\* clear() during a sync
C30_Witness ==
    /\ logEvent.kind = "end"
    /\ logEvent.stream = "main"
    /\ loops["main"] = {}
    /\ ~raced["main"]
    /\ Len(mainLogs) >= 2


----------------------------------------------------------------------------
(* utils                                                                   *)

\* xs.join(d), spelled out from the first element on
RECURSIVE C25_Joined(_, _)
C25_Joined(xs, d) ==
    IF Len(xs) = 0 THEN <<>>
    ELSE IF Len(xs) = 1 THEN xs[1]
    ELSE xs[1] \o d \o C25_Joined(Tail(xs), d)

(* C25: normalizeList(xs, d) gives the elements of an array xs joined with *)
(* the delimiter d and gives a single string unchanged; normalizeHashes    *)
(* does the same with the delimiter '|'.                                   *)
C25_Normalized ==
    LET d == IF util.fn = "normalizeHashes" THEN <<"|">> ELSE util.delimiter
    IN  util.fn \in {"normalizeHashes", "normalizeList"}
            => util.out = IF util.value.array
                          THEN C25_Joined(util.value.items, d)
                          ELSE util.value.str

\* two hashes, one of which holds the delimiter, have been joined
C25_Witness ==
    /\ util.fn = "normalizeHashes"
    /\ util.value = Arr(<<<<"a", "|">>, <<"a">>>>)
    /\ util.out = <<"a", "|", "|", "a">>


----------------------------------------------------------------------------
(* The session, once more                                                  *)

(* C26: a login() call that fails leaves this.state.auth as it was when    *)
(* the call was made, also when it fails in the version detection that     *)
(* follows the cookie.                                                     *)
C26_FailedLoginLeavesState ==
    [][\A t \in Tasks :
          (call[t].op = "login" /\ call'[t] = IdleCall /\ last'.status = "threw")
              => auth' = call[t].auth]_vars


\* the login() frames caller t holds
C27_Logins(t) == {i \in 1..Len(stack[t]) : stack[t][i].fn = "login"}

(* C27: the version query made inside login() passes the session guard and *)
(* never enters login() again: no caller is ever inside two login() calls, *)
(* one nested in the other, so that login() ends once its transport calls  *)
(* have ended.                                                             *)
C27_LoginNotReentered ==
    \A t \in Tasks : Cardinality(C27_Logins(t)) <= 1


(* C28: version info is cached only while a session token is held: the     *)
(* client is never without a token and with a version cached, also when    *)
(* logout() runs while a login() is in flight.                             *)
C28_VersionOnlyWithSession ==
    version.has => auth.has


(* C29: request() never builds its credential header from an absent        *)
(* session: when its guard has passed or its login() has returned, a token *)
(* is held at the moment the target call is sent, also when logout() runs  *)
(* meanwhile.  (Reading the token of an absent session throws a TypeError, *)
(* and a target call in flight carries the token it was sent with.)        *)
C29_TokenPresentAtSend ==
    /\ ~(last.kind = "end" /\ last.status = "threw" /\ last.error = "TypeError")
    /\ \A t \in Tasks : \A i \in 1..Len(stack[t]) :
          TargetIssued(stack[t][i]) => stack[t][i].cookie # ""

====
